---- MODULE Spec2Model ----
(***************************************************************************)
(* ESP32 pulse monitor backend: ingestion -> SQLite store -> WebSocket     *)
(* fan-out, with retention purge and bucket aggregation.                   *)
(*                                                                         *)
(* The repository holds two builds of the server:                          *)
(*   variant = "sync"   src/server.js        better-sqlite3, synchronous   *)
(*                      statements, purge by AFTER INSERT trigger          *)
(*   variant = "async"  src/unnamed/part_000 sqlite3, callback statements, *)
(*                      purge by an hourly setInterval                     *)
(* Time is in integer milliseconds counted from the model's epoch.         *)
(***************************************************************************)
EXTENDS Integers, Sequences, FiniteSets, TLC

\* ---------------------------------------------------------------- bounds
MaxReqs    == 2
MaxClients == 2
MaxTicks   == 3
MaxReads   == 1
MaxNow     == 870000000

\* ------------------------------------------------------ program constants
HORIZON_S    == 432000
HORIZON_MS   == 5 * 24 * 60 * 60 * 1000
PURGE_EVERY  == 60 * 60 * 1000
BUCKET_WIDTH == 600000
HISTORY_MS   == 10 * 60 * 1000
DAY_MS       == 24 * 60 * 60 * 1000
DEFAULT_DAYS == 5
MAX_DAYS     == 5
OPEN         == 1
DEFAULT_MINUTES == 10
MAX_MINUTES  == 60
MINUTE_MS    == 60 * 1000

Reqs    == 1..MaxReqs
Clients == 1..MaxClients

\* the clock readings of a run: the k-th advance of the clock is by the k-th
\* entry; handlers run at any reading, any number of them
StoreClock   == <<599999, 1, PURGE_EVERY, HORIZON_MS, 1, 1>>
HistoryClock == <<600000, 1, 299999, 300000, 1, 1>>

\* JSON body values are tokens: "undefined" is an absent key, "null" is null
Bodies ==
  { [device_id |-> "undefined", pulse_number |-> "undefined", uptime_ms |-> "undefined"],
    [device_id |-> "dev",       pulse_number |-> "7",         uptime_ms |-> "1000"],
    [device_id |-> "null",      pulse_number |-> "null",      uptime_ms |-> "5"] }

\* bodies the storage accepts
GoodBodies == {b \in Bodies : b.device_id # "null"}

\* ?days= query strings
DayQueries == {"absent", "0", "-1", "1", "9"}

\* ?minutes= query strings
MinuteQueries == {"absent", "abc", "0", "-5", "30", "90"}

VARIABLES
  variant,      \* which build runs
  now,          \* wall clock, ms
  ticks,        \* clock advances made so far
  store,        \* rows of table pulses
  nextId,       \* sqlite_sequence.seq + 1 of table pulses
  clients,      \* the Set clients, in insertion order
  readyState,   \* ws.readyState per socket (0 = socket not created yet)
  inbox,        \* messages each socket has been sent
  reqs,         \* POST /api/pulse requests
  dbOps,        \* statements handed to sqlite3 (async build)
  nextPurgeAt,  \* due time of the purge interval (async build)
  crashed,      \* process died of an uncaught exception
  reads,        \* GET requests issued
  lastRead,     \* last GET response
  lastPurge,    \* history: last DELETE executed
  maxCutoff,    \* history: largest purge cutoff executed
  issued,       \* history: ids assigned by the store, in insertion order
  bcasts        \* history: calls of broadcast, in call order

vars == <<variant, now, ticks, store, nextId, clients, readyState, inbox, reqs,
          dbOps, nextPurgeAt, crashed, reads, lastRead, lastPurge, maxCutoff,
          issued, bcasts>>

\* ------------------------------------------------------------- helpers
Rec(id, dev, pn, up, st) ==
  [id |-> id, device_id |-> dev, pulse_number |-> pn, uptime_ms |-> up, server_time |-> st]

NoRec == Rec(0, "", "", "", 0)

Range(s) == {s[i] : i \in 1..Len(s)}

Ids(S) == {r.id : r \in S}

SetMax(S) == IF S = {} THEN 0 ELSE CHOOSE m \in S : \A x \in S : x <= m

SetMin(S) == CHOOSE m \in S : \A x \in S : m <= x

\* a destructuring without defaults
DefaultNone(v, d) == v

\* destructuring default: applies to undefined only, null stays null
Default(v, d) == IF v = "undefined" THEN d ELSE v

\* strftime('%s','now') * 1000
SqlNowMs(t) == (t \div 1000) * 1000

\* (strftime('%s','now') - 432000) * 1000
TriggerCutoff(t) == ((t \div 1000) - HORIZON_S) * 1000

\* Date.now() - 5 days
TimerCutoff(t) == t - HORIZON_MS

\* a DELETE that also takes the row at the cutoff (<=)
PurgeBeforeLE(S, cutoff) == {r \in S : ~(r.server_time <= cutoff)}

\* DELETE FROM pulses WHERE server_time < cutoff
PurgeBefore(S, cutoff) == {r \in S : ~(r.server_time < cutoff)}

\* INTEGER PRIMARY KEY without AUTOINCREMENT: largest rowid in the table + 1
AllocIdMaxRowid(S, seq) == SetMax(Ids(S)) + 1

\* INTEGER PRIMARY KEY AUTOINCREMENT: the next value of sqlite_sequence
AllocId(S, seq) == seq

\* device_id TEXT NOT NULL, or the storage itself failing
InsertFails(dev, storageFail) == storageFail \/ dev = "null"

\* a handler that broadcasts whatever the insert did
NotifyAlways(err) == TRUE

\* the handler goes on to broadcast only when the insert did not fail
NotifyOnInsert(err) == ~err

\* a WHERE that leaves out the row at since (>)
SelectSinceGT(S, since) == {r \in S : r.server_time > since}

\* WHERE server_time >= since
SelectSince(S, since) == {r \in S : r.server_time >= since}

\* ORDER BY server_time ASC (index idx_server_time: ties in rowid order)
RECURSIVE SortRows(_)
SortRows(S) ==
  IF S = {} THEN <<>>
  ELSE LET m == CHOOSE r \in S : \A q \in S :
                   \/ r.server_time < q.server_time
                   \/ (r.server_time = q.server_time /\ r.id <= q.id)
       IN  <<m>> \o SortRows(S \ {m})

QuerySince(S, since) == SortRows(SelectSince(S, since))

\* a bootstrap window of 60 minutes
Since10mHour(t) == t - 60 * 60 * 1000

\* Date.now() - 10 * 60 * 1000
Since10m(t) == t - HISTORY_MS

\* alignment by rounding to the nearest bucket start
BucketMsRound(t) == ((t + (BUCKET_WIDTH \div 2)) \div BUCKET_WIDTH) * BUCKET_WIDTH

\* (server_time / 600000) * 600000, integer division
BucketMs(t) == (t \div BUCKET_WIDTH) * BUCKET_WIDTH

BucketRow(S, b) ==
  LET g == {r \in S : BucketMs(r.server_time) = b}
  IN  [bucket_ms |-> b, count |-> Cardinality(g),
       first_pulse_ms |-> SetMin({r.server_time : r \in g}),
       last_pulse_ms  |-> SetMax({r.server_time : r \in g})]

RECURSIVE BucketSeq(_, _)
BucketSeq(S, keys) ==
  IF keys = {} THEN <<>>
  ELSE LET b == SetMin(keys) IN <<BucketRow(S, b)>> \o BucketSeq(S, keys \ {b})

\* SELECT ... WHERE server_time >= ? GROUP BY bucket_ms ORDER BY bucket_ms ASC
Buckets(S, since) ==
  LET q == SelectSince(S, since)
  IN  BucketSeq(q, {BucketMs(r.server_time) : r \in q})

\* parseFloat(req.query.days): [nan, v]
ParseDays(q) ==
  IF q = "1" THEN [nan |-> FALSE, v |-> 1]
  ELSE IF q = "9" THEN [nan |-> FALSE, v |-> 9]
  ELSE IF q = "0" THEN [nan |-> FALSE, v |-> 0]
  ELSE IF q = "-1" THEN [nan |-> FALSE, v |-> -1]
  ELSE [nan |-> TRUE, v |-> 0]

\* Math.min(parseFloat(req.query.days) || 5, 5)
DaysOf(q) ==
  LET p == ParseDays(q)
      d == IF p.nan \/ p.v = 0 THEN DEFAULT_DAYS ELSE p.v
  IN  IF d < MAX_DAYS THEN d ELSE MAX_DAYS

\* Date.now() - days * 24 * 60 * 60 * 1000
BucketsSince(t, q) == t - DaysOf(q) * DAY_MS

\* parseInt(req.query.minutes): [nan, v]
ParseMinutes(q) ==
  IF q = "0" THEN [nan |-> FALSE, v |-> 0]
  ELSE IF q = "-5" THEN [nan |-> FALSE, v |-> -5]
  ELSE IF q = "30" THEN [nan |-> FALSE, v |-> 30]
  ELSE IF q = "90" THEN [nan |-> FALSE, v |-> 90]
  ELSE [nan |-> TRUE, v |-> 0]

\* a minute count taken as asked, without Math.min
MinutesOfNoCap(q) ==
  LET p == ParseMinutes(q)
  IN  IF p.nan \/ p.v = 0 THEN DEFAULT_MINUTES ELSE p.v

\* Math.min(parseInt(req.query.minutes) || 10, 60)
MinutesOf(q) ==
  LET p == ParseMinutes(q)
      m == IF p.nan \/ p.v = 0 THEN DEFAULT_MINUTES ELSE p.v
  IN  IF m < MAX_MINUTES THEN m ELSE MAX_MINUTES

\* Date.now() - minutes * 60 * 1000
RecentSince(t, q) == t - MinutesOf(q) * MINUTE_MS

\* WHERE server_time >= (strftime('%s','now') - 432000) * 1000
StatsSinceSql(t) == ((t \div 1000) - HORIZON_S) * 1000

\* Date.now() - 5 * 24 * 60 * 60 * 1000
StatsSinceJs(t) == t - HORIZON_MS

\* a statistics query without its WHERE
StatsWholeTable(S, since) ==
  [total_pulses |-> Cardinality(S),
   first_ms |-> IF S = {} THEN <<>> ELSE <<SetMin({r.server_time : r \in S})>>,
   last_ms  |-> IF S = {} THEN <<>> ELSE <<SetMax({r.server_time : r \in S})>>]

\* SELECT COUNT(*), MIN(server_time), MAX(server_time) ... WHERE server_time >= since.
\* A column is a sequence: <<>> is NULL, <<v>> the value v.
Stats(S, since) ==
  LET w == SelectSince(S, since)
  IN  [total_pulses |-> Cardinality(w),
       first_ms |-> IF w = {} THEN <<>> ELSE <<SetMin({r.server_time : r \in w})>>,
       last_ms  |-> IF w = {} THEN <<>> ELSE <<SetMax({r.server_time : r \in w})>>]

NoStats == [total_pulses |-> 0, first_ms |-> <<>>, last_ms |-> <<>>]

\* ------------------------------------------------------------ messages
PulseMsg(r, record) ==
  [type |-> "PULSE", req |-> r, pulse |-> record, pulses |-> <<>>,
   since |-> 0, at |-> 0, snap |-> {}]

\* since, at and snap are history: the query bound, the connect time and the
\* table content the SELECT ran against
HistoryMsg(rows, since, at, snap) ==
  [type |-> "HISTORY", req |-> 0, pulse |-> NoRec, pulses |-> rows,
   since |-> since, at |-> at, snap |-> snap]

\* ------------------------------------------------------------ broadcast
\* index of the first socket whose send throws, Len+1 when none does
FirstThrow(cl, rs, failing) ==
  LET bad == {i \in 1..Len(cl) : rs[cl[i]] = OPEN /\ cl[i] \in failing}
  IN  IF bad = {} THEN Len(cl) + 1 ELSE SetMin(bad)

\* a broadcast loop without the readyState test
SentToAnyState(cl, rs, failing) ==
  {cl[i] : i \in {j \in 1..Len(cl) : j < FirstThrow(cl, rs, failing)}}

\* the sockets client.send(msg) returned normally for
SentTo(cl, rs, failing) ==
  {cl[i] : i \in {j \in 1..Len(cl) : j < FirstThrow(cl, rs, failing) /\ rs[cl[j]] = OPEN}}

BroadcastThrows(cl, rs, failing) == FirstThrow(cl, rs, failing) <= Len(cl)

\* a close handler that leaves the socket in the Set
UnregisterNone(cl, c) == cl

\* clients.delete(ws)
Unregister(cl, c) == SelectSeq(cl, LAMBDA x : x # c)

Deliver(ib, msg, to) == [c \in Clients |-> IF c \in to THEN Append(ib[c], msg) ELSE ib[c]]

BcastEntry(r, id, cl, rs, failing) ==
  [req |-> r, id |-> id,
   open |-> {c \in Range(cl) : rs[c] = OPEN},
   threw |-> BroadcastThrows(cl, rs, failing),
   thrower |-> IF BroadcastThrows(cl, rs, failing)
               THEN cl[FirstThrow(cl, rs, failing)] ELSE 0]

\* ----------------------------------------------------------------- Init
NoRead  == [kind |-> "none", since |-> 0, at |-> 0, buckets |-> <<>>, rows |-> <<>>,
            stats |-> NoStats, snap |-> {}, status |-> 0]
NoPurge == [cutoff |-> 0, before |-> {}, after |-> {}, changes |-> 0]
NoBody  == [device_id |-> "", pulse_number |-> "", uptime_ms |-> ""]
NewReq  == [pc |-> "new", ins |-> "none", id |-> 0, st |-> 0, status |-> 0, respId |-> 0,
            body |-> NoBody, sfail |-> FALSE]

\* a database file left by an earlier run of the same table
OldRows == {Rec(1, "ESP32-001", "null", "null", 0), Rec(2, "dev", "7", "1000", 600000)}

\* a first start on an empty database file
Fresh ==
  /\ now = 0
  /\ store = {}
  /\ nextId = 1
  /\ issued = <<>>

\* a restart on the database file of an earlier run (CREATE TABLE IF NOT EXISTS)
Restarted ==
  /\ now = HORIZON_MS
  /\ store = OldRows
  /\ nextId = 3
  /\ issued = <<1, 2>>

Boot ==
  /\ variant \in {"sync", "async"}
  /\ ticks = 0
  /\ clients = <<>>
  /\ readyState = [c \in Clients |-> 0]
  /\ inbox = [c \in Clients |-> <<>>]
  /\ reqs = [r \in Reqs |-> NewReq]
  /\ dbOps = {}
  /\ nextPurgeAt = now + PURGE_EVERY
  /\ crashed = FALSE
  /\ reads = 0
  /\ lastRead = NoRead
  /\ lastPurge = NoPurge
  /\ maxCutoff = 0
  /\ bcasts = <<>>

Init == (Fresh \/ Restarted) /\ Boot

\* requests and sockets are numbered in the order they arrive
Arrived(r) == \A q \in Reqs : q < r => reqs[q].pc # "new"

Accepted(c) == \A b \in Clients : b < c => readyState[b] # 0

\* ------------------------------------------------------------- the clock
\* the clock moves on to its next reading; in the async build no further than
\* the instant the purge interval is due, where PurgeTimer runs first. A
\* statement handed to sqlite3 finishes within the clock reading it was issued at.
Tick(clock) ==
  /\ ~crashed
  /\ dbOps = {}
  /\ ticks < MaxTicks /\ ticks < Len(clock)
  /\ now + clock[ticks + 1] <= MaxNow
  /\ variant = "async" => now < nextPurgeAt
  /\ now' = IF variant = "async" /\ now + clock[ticks + 1] > nextPurgeAt
            THEN nextPurgeAt ELSE now + clock[ticks + 1]
  /\ ticks' = ticks + 1
  /\ UNCHANGED <<variant, store, nextId, clients, readyState, inbox, reqs, dbOps,
                 nextPurgeAt, crashed, reads, lastRead, lastPurge, maxCutoff,
                 issued, bcasts>>

\* ------------------------------------------------- server.js (sync build)
\* app.post('/api/pulse'): insert (with trigger purge), broadcast, respond
PostPulseSync(r, body, storageFail, failing) ==
  /\ variant = "sync" /\ ~crashed
  /\ reqs[r].pc = "new" /\ Arrived(r)
  /\ LET dev    == Default(body.device_id, "ESP32-001")
         pn     == Default(body.pulse_number, "null")
         up     == Default(body.uptime_ms, "null")
         err    == InsertFails(dev, storageFail)
         id     == AllocId(store, nextId)
         row    == Rec(id, dev, pn, up, SqlNowMs(now))
         cutoff == TriggerCutoff(now)
         after  == PurgeBefore(store \cup {row}, cutoff)
         record == Rec(id, dev, pn, up, now)
         notify == NotifyOnInsert(err)
         threw  == notify /\ BroadcastThrows(clients, readyState, failing)
     IN  /\ store' = IF err THEN store ELSE after
         /\ nextId' = IF err THEN nextId ELSE id + 1
         /\ issued' = IF err THEN issued ELSE Append(issued, id)
         /\ lastPurge' = IF err THEN lastPurge
                         ELSE [cutoff |-> cutoff, before |-> store \cup {row},
                               after |-> after,
                               changes |-> Cardinality((store \cup {row}) \ after)]
         /\ maxCutoff' = IF ~err /\ cutoff > maxCutoff THEN cutoff ELSE maxCutoff
         /\ inbox' = IF notify
                     THEN Deliver(inbox, PulseMsg(r, record),
                                  SentTo(clients, readyState, failing))
                     ELSE inbox
         /\ bcasts' = IF notify
                      THEN Append(bcasts, BcastEntry(r, id, clients, readyState, failing))
                      ELSE bcasts
         /\ reqs' = [reqs EXCEPT ![r] =
                       [pc |-> "done", ins |-> IF err THEN "failed" ELSE "ok",
                        id |-> IF err THEN 0 ELSE id,
                        st |-> IF err THEN 0 ELSE row.server_time,
                        status |-> IF err \/ threw THEN 500 ELSE 201,
                        respId |-> IF err \/ threw THEN 0 ELSE id,
                        body |-> body, sfail |-> storageFail]]
  /\ UNCHANGED <<variant, now, ticks, clients, readyState, dbOps, nextPurgeAt,
                 crashed, reads, lastRead>>

\* wss.on('connection'): register, query the last 10 minutes, send HISTORY.
\* A throw of stmtRecent.all inside the listener is an uncaught exception.
ConnectSync(c, storageFail) ==
  /\ variant = "sync" /\ ~crashed
  /\ readyState[c] = 0 /\ Accepted(c)
  /\ clients' = Append(clients, c)
  /\ readyState' = [readyState EXCEPT ![c] = OPEN]
  /\ crashed' = storageFail
  /\ inbox' = IF storageFail THEN inbox
              ELSE [inbox EXCEPT ![c] =
                      Append(@, HistoryMsg(QuerySince(store, Since10m(now)),
                                           Since10m(now), now, store))]
  /\ UNCHANGED <<variant, now, ticks, store, nextId, reqs, dbOps, nextPurgeAt,
                 reads, lastRead, lastPurge, maxCutoff, issued, bcasts>>

\* app.get('/api/buckets'); a throw of stmtBuckets.all reaches the framework's
\* error handler, which answers 500
GetBucketsSync(q, storageFail) ==
  /\ variant = "sync" /\ ~crashed
  /\ reads < MaxReads
  /\ reads' = reads + 1
  /\ lastRead' = [NoRead EXCEPT
                    !.kind = "buckets", !.since = BucketsSince(now, q), !.at = now,
                    !.buckets = IF storageFail THEN <<>>
                                ELSE Buckets(store, BucketsSince(now, q)),
                    !.snap = store, !.status = IF storageFail THEN 500 ELSE 200]
  /\ UNCHANGED <<variant, now, ticks, store, nextId, clients, readyState, inbox, reqs,
                 dbOps, nextPurgeAt, crashed, lastPurge, maxCutoff, issued, bcasts>>

\* app.get('/api/recent')
GetRecentSync(q, storageFail) ==
  /\ variant = "sync" /\ ~crashed
  /\ reads < MaxReads
  /\ reads' = reads + 1
  /\ lastRead' = [NoRead EXCEPT
                    !.kind = "recent", !.since = RecentSince(now, q), !.at = now,
                    !.rows = IF storageFail THEN <<>>
                             ELSE QuerySince(store, RecentSince(now, q)),
                    !.snap = store, !.status = IF storageFail THEN 500 ELSE 200]
  /\ UNCHANGED <<variant, now, ticks, store, nextId, clients, readyState, inbox, reqs,
                 dbOps, nextPurgeAt, crashed, lastPurge, maxCutoff, issued, bcasts>>

\* app.get('/api/stats')
GetStatsSync(storageFail) ==
  /\ variant = "sync" /\ ~crashed
  /\ reads < MaxReads
  /\ reads' = reads + 1
  /\ lastRead' = [NoRead EXCEPT
                    !.kind = "stats", !.since = StatsSinceSql(now), !.at = now,
                    !.stats = IF storageFail THEN NoStats
                              ELSE Stats(store, StatsSinceSql(now)),
                    !.snap = store, !.status = IF storageFail THEN 500 ELSE 200]
  /\ UNCHANGED <<variant, now, ticks, store, nextId, clients, readyState, inbox, reqs,
                 dbOps, nextPurgeAt, crashed, lastPurge, maxCutoff, issued, bcasts>>

\* ------------------------------------------ the socket's own life (ws)
\* the transport starts closing: readyState leaves OPEN before 'close' is emitted
SocketClosing(c) ==
  /\ ~crashed
  /\ readyState[c] = OPEN
  /\ readyState' = [readyState EXCEPT ![c] = 2]
  /\ UNCHANGED <<variant, now, ticks, store, nextId, clients, inbox, reqs, dbOps,
                 nextPurgeAt, crashed, reads, lastRead, lastPurge, maxCutoff,
                 issued, bcasts>>

\* ws.on('close'): clients.delete(ws)
OnClose(c) ==
  /\ ~crashed
  /\ readyState[c] = 2
  /\ readyState' = [readyState EXCEPT ![c] = 3]
  /\ clients' = Unregister(clients, c)
  /\ UNCHANGED <<variant, now, ticks, store, nextId, inbox, reqs, dbOps,
                 nextPurgeAt, crashed, reads, lastRead, lastPurge, maxCutoff,
                 issued, bcasts>>

\* ------------------------------------------- part_000 (async build)
\* a statement handed to sqlite3: queued, then run against the table, then its
\* callback is called. The library runs statements in parallel mode (no
\* db.serialize around them), so neither order is fixed.
Op(kind, who, arg, row) ==
  [kind |-> kind, who |-> who, arg |-> arg, at |-> now, row |-> row, st |-> "queued",
   err |-> FALSE, lastID |-> 0, rows |-> <<>>, buckets |-> <<>>, stats |-> NoStats,
   snap |-> {}]

Ran(op, err, lastID, rows, buckets) ==
  [op EXCEPT !.st = "done", !.err = err, !.lastID = lastID, !.rows = rows,
             !.buckets = buckets, !.snap = store]

\* app.post('/api/pulse'), up to db.run(INSERT ...)
PostPulseAsync(r, body) ==
  /\ variant = "async" /\ ~crashed
  /\ reqs[r].pc = "new" /\ Arrived(r)
  /\ LET dev == Default(body.device_id, "ESP32-001")
         pn  == Default(body.pulse_number, "null")
         up  == Default(body.uptime_ms, "null")
     IN  dbOps' = dbOps \cup {Op("insert", r, now, Rec(0, dev, pn, up, now))}
  /\ reqs' = [reqs EXCEPT ![r].pc = "pending", ![r].body = body]
  /\ UNCHANGED <<variant, now, ticks, store, nextId, clients, readyState, inbox,
                 nextPurgeAt, crashed, reads, lastRead, lastPurge, maxCutoff,
                 issued, bcasts>>

\* the INSERT runs
ExecInsert(op, storageFail) ==
  /\ ~crashed
  /\ op \in dbOps /\ op.kind = "insert" /\ op.st = "queued"
  /\ LET err == InsertFails(op.row.device_id, storageFail)
         id  == AllocId(store, nextId)
     IN  /\ store' = IF err THEN store ELSE store \cup {[op.row EXCEPT !.id = id]}
         /\ nextId' = IF err THEN nextId ELSE id + 1
         /\ issued' = IF err THEN issued ELSE Append(issued, id)
         /\ dbOps' = (dbOps \ {op}) \cup {Ran(op, err, IF err THEN 0 ELSE id, <<>>, <<>>)}
         /\ reqs' = [reqs EXCEPT ![op.who].ins = IF err THEN "failed" ELSE "ok",
                                 ![op.who].id = IF err THEN 0 ELSE id,
                                 ![op.who].st = IF err THEN 0 ELSE op.row.server_time,
                                 ![op.who].sfail = storageFail]
  /\ UNCHANGED <<variant, now, ticks, clients, readyState, inbox, nextPurgeAt,
                 crashed, reads, lastRead, lastPurge, maxCutoff, bcasts>>

\* function(err) { ... } of the INSERT: respond 500, or broadcast and respond 201.
\* A throw of client.send leaves the callback: nothing catches it.
InsertCallback(op, failing) ==
  /\ ~crashed
  /\ op \in dbOps /\ op.kind = "insert" /\ op.st = "done"
  /\ LET r      == op.who
         record == [op.row EXCEPT !.id = op.lastID]
         notify == NotifyOnInsert(op.err)
         threw  == notify /\ BroadcastThrows(clients, readyState, failing)
     IN  /\ inbox' = IF notify
                     THEN Deliver(inbox, PulseMsg(r, record),
                                  SentTo(clients, readyState, failing))
                     ELSE inbox
         /\ bcasts' = IF notify
                      THEN Append(bcasts, BcastEntry(r, op.lastID, clients, readyState, failing))
                      ELSE bcasts
         /\ crashed' = threw
         /\ reqs' = [reqs EXCEPT ![r].pc = IF threw THEN "aborted" ELSE "done",
                                 ![r].status = IF threw THEN 0
                                               ELSE IF op.err THEN 500 ELSE 201,
                                 ![r].respId = IF threw \/ op.err THEN 0 ELSE op.lastID]
  /\ dbOps' = dbOps \ {op}
  /\ UNCHANGED <<variant, now, ticks, store, nextId, clients, readyState,
                 nextPurgeAt, reads, lastRead, lastPurge, maxCutoff, issued>>

\* wss.on('connection'), up to db.all(SELECT ...)
ConnectAsync(c) ==
  /\ variant = "async" /\ ~crashed
  /\ readyState[c] = 0 /\ Accepted(c)
  /\ clients' = Append(clients, c)
  /\ readyState' = [readyState EXCEPT ![c] = OPEN]
  /\ dbOps' = dbOps \cup {Op("history", c, Since10m(now), NoRec)}
  /\ UNCHANGED <<variant, now, ticks, store, nextId, inbox, reqs, nextPurgeAt,
                 crashed, reads, lastRead, lastPurge, maxCutoff, issued, bcasts>>

\* the history SELECT runs
ExecHistory(op, storageFail) ==
  /\ ~crashed
  /\ op \in dbOps /\ op.kind = "history" /\ op.st = "queued"
  /\ dbOps' = (dbOps \ {op}) \cup
                {Ran(op, storageFail, 0,
                     IF storageFail THEN <<>> ELSE QuerySince(store, op.arg), <<>>)}
  /\ UNCHANGED <<variant, now, ticks, store, nextId, clients, readyState, inbox, reqs,
                 nextPurgeAt, crashed, reads, lastRead, lastPurge, maxCutoff,
                 issued, bcasts>>

\* (err, rows) => { if (!err && ws.readyState === 1) ws.send(HISTORY) }
HistoryCallback(op) ==
  /\ ~crashed
  /\ op \in dbOps /\ op.kind = "history" /\ op.st = "done"
  /\ inbox' = IF ~op.err /\ readyState[op.who] = OPEN
              THEN [inbox EXCEPT ![op.who] =
                      Append(@, HistoryMsg(op.rows, op.arg, op.at, op.snap))]
              ELSE inbox
  /\ dbOps' = dbOps \ {op}
  /\ UNCHANGED <<variant, now, ticks, store, nextId, clients, readyState, reqs,
                 nextPurgeAt, crashed, reads, lastRead, lastPurge, maxCutoff,
                 issued, bcasts>>

\* setInterval(..., 60 * 60 * 1000): hand the DELETE to sqlite3
PurgeTimer ==
  /\ variant = "async" /\ ~crashed
  /\ now = nextPurgeAt
  /\ dbOps' = dbOps \cup {Op("purge", 0, TimerCutoff(now), NoRec)}
  /\ nextPurgeAt' = nextPurgeAt + PURGE_EVERY
  /\ UNCHANGED <<variant, now, ticks, store, nextId, clients, readyState, inbox, reqs,
                 crashed, reads, lastRead, lastPurge, maxCutoff, issued, bcasts>>

\* the DELETE runs; its callback only logs
ExecPurge(op, storageFail) ==
  /\ ~crashed
  /\ op \in dbOps /\ op.kind = "purge" /\ op.st = "queued"
  /\ store' = IF storageFail THEN store ELSE PurgeBefore(store, op.arg)
  /\ lastPurge' = IF storageFail THEN lastPurge
                  ELSE [cutoff |-> op.arg, before |-> store,
                        after |-> PurgeBefore(store, op.arg),
                        changes |-> Cardinality(store \ PurgeBefore(store, op.arg))]
  /\ maxCutoff' = IF ~storageFail /\ op.arg > maxCutoff THEN op.arg ELSE maxCutoff
  /\ dbOps' = dbOps \ {op}
  /\ UNCHANGED <<variant, now, ticks, nextId, clients, readyState, inbox, reqs,
                 nextPurgeAt, crashed, reads, lastRead, issued, bcasts>>

\* app.get('/api/buckets'), up to db.all(SELECT ...)
GetBucketsAsync(q) ==
  /\ variant = "async" /\ ~crashed
  /\ reads < MaxReads
  /\ reads' = reads + 1
  /\ dbOps' = dbOps \cup {Op("buckets", 0, BucketsSince(now, q), NoRec)}
  /\ UNCHANGED <<variant, now, ticks, store, nextId, clients, readyState, inbox, reqs,
                 nextPurgeAt, crashed, lastRead, lastPurge, maxCutoff, issued, bcasts>>

\* the bucket SELECT runs
ExecBuckets(op, storageFail) ==
  /\ ~crashed
  /\ op \in dbOps /\ op.kind = "buckets" /\ op.st = "queued"
  /\ dbOps' = (dbOps \ {op}) \cup
                {Ran(op, storageFail, 0, <<>>,
                     IF storageFail THEN <<>> ELSE Buckets(store, op.arg))}
  /\ UNCHANGED <<variant, now, ticks, store, nextId, clients, readyState, inbox, reqs,
                 nextPurgeAt, crashed, reads, lastRead, lastPurge, maxCutoff,
                 issued, bcasts>>

\* (err, rows) => err ? 500 : res.json({ buckets: rows || [] })
BucketsCallback(op) ==
  /\ ~crashed
  /\ op \in dbOps /\ op.kind = "buckets" /\ op.st = "done"
  /\ lastRead' = [NoRead EXCEPT
                    !.kind = "buckets", !.since = op.arg, !.at = op.at,
                    !.buckets = op.buckets, !.snap = op.snap,
                    !.status = IF op.err THEN 500 ELSE 200]
  /\ dbOps' = dbOps \ {op}
  /\ UNCHANGED <<variant, now, ticks, store, nextId, clients, readyState, inbox, reqs,
                 nextPurgeAt, crashed, reads, lastPurge, maxCutoff, issued, bcasts>>

\* app.get('/api/recent'), up to db.all(SELECT ...)
GetRecentAsync(q) ==
  /\ variant = "async" /\ ~crashed
  /\ reads < MaxReads
  /\ reads' = reads + 1
  /\ dbOps' = dbOps \cup {Op("recent", 0, RecentSince(now, q), NoRec)}
  /\ UNCHANGED <<variant, now, ticks, store, nextId, clients, readyState, inbox, reqs,
                 nextPurgeAt, crashed, lastRead, lastPurge, maxCutoff, issued, bcasts>>

\* the recent SELECT runs
ExecRecent(op, storageFail) ==
  /\ ~crashed
  /\ op \in dbOps /\ op.kind = "recent" /\ op.st = "queued"
  /\ dbOps' = (dbOps \ {op}) \cup
                {Ran(op, storageFail, 0,
                     IF storageFail THEN <<>> ELSE QuerySince(store, op.arg), <<>>)}
  /\ UNCHANGED <<variant, now, ticks, store, nextId, clients, readyState, inbox, reqs,
                 nextPurgeAt, crashed, reads, lastRead, lastPurge, maxCutoff,
                 issued, bcasts>>

\* (err, rows) => err ? 500 : res.json({ pulses: rows || [] })
RecentCallback(op) ==
  /\ ~crashed
  /\ op \in dbOps /\ op.kind = "recent" /\ op.st = "done"
  /\ lastRead' = [NoRead EXCEPT
                    !.kind = "recent", !.since = op.arg, !.at = op.at,
                    !.rows = op.rows, !.snap = op.snap,
                    !.status = IF op.err THEN 500 ELSE 200]
  /\ dbOps' = dbOps \ {op}
  /\ UNCHANGED <<variant, now, ticks, store, nextId, clients, readyState, inbox, reqs,
                 nextPurgeAt, crashed, reads, lastPurge, maxCutoff, issued, bcasts>>

\* app.get('/api/stats'), up to db.get(SELECT ...)
GetStatsAsync ==
  /\ variant = "async" /\ ~crashed
  /\ reads < MaxReads
  /\ reads' = reads + 1
  /\ dbOps' = dbOps \cup {Op("stats", 0, StatsSinceJs(now), NoRec)}
  /\ UNCHANGED <<variant, now, ticks, store, nextId, clients, readyState, inbox, reqs,
                 nextPurgeAt, crashed, lastRead, lastPurge, maxCutoff, issued, bcasts>>

\* the statistics SELECT runs
ExecStats(op, storageFail) ==
  /\ ~crashed
  /\ op \in dbOps /\ op.kind = "stats" /\ op.st = "queued"
  /\ dbOps' = (dbOps \ {op}) \cup
                {[Ran(op, storageFail, 0, <<>>, <<>>) EXCEPT
                    !.stats = IF storageFail THEN NoStats ELSE Stats(store, op.arg)]}
  /\ UNCHANGED <<variant, now, ticks, store, nextId, clients, readyState, inbox, reqs,
                 nextPurgeAt, crashed, reads, lastRead, lastPurge, maxCutoff,
                 issued, bcasts>>

\* (err, row) => err ? 500 : res.json(row || { total_pulses: 0, ... }); an
\* aggregate without GROUP BY always yields its one row
StatsCallback(op) ==
  /\ ~crashed
  /\ op \in dbOps /\ op.kind = "stats" /\ op.st = "done"
  /\ lastRead' = [NoRead EXCEPT
                    !.kind = "stats", !.since = op.arg, !.at = op.at,
                    !.stats = op.stats, !.snap = op.snap,
                    !.status = IF op.err THEN 500 ELSE 200]
  /\ dbOps' = dbOps \ {op}
  /\ UNCHANGED <<variant, now, ticks, store, nextId, clients, readyState, inbox, reqs,
                 nextPurgeAt, crashed, reads, lastPurge, maxCutoff, issued, bcasts>>

\* ======================================================================
\* Properties
\* ======================================================================
Pulses(c) == SelectSeq(inbox[c], LAMBDA m : m.type = "PULSE")

PulsesOf(c, id) == SelectSeq(inbox[c], LAMBDA m : m.type = "PULSE" /\ m.pulse.id = id)

BcastIndex(id) == CHOOSE i \in 1..Len(bcasts) : bcasts[i].id = id

\* C1: durability precedes notification. Every PULSE message a socket was sent
\* belongs to a request whose insert succeeded and carries the id the store
\* assigned to a row it holds; for a request whose insert failed broadcast was
\* not called, no socket was sent a message of it, and its response is the
\* failure response without an id.
C1_DurabilityPrecedesNotification ==
  /\ \A c \in Clients : \A i \in 1..Len(inbox[c]) :
        inbox[c][i].type = "PULSE" =>
          /\ reqs[inbox[c][i].req].ins = "ok"
          /\ inbox[c][i].pulse.id = reqs[inbox[c][i].req].id
          /\ inbox[c][i].pulse.id \in Range(issued)
          /\ \E row \in store : row.id = inbox[c][i].pulse.id
  /\ \A r \in Reqs :
        reqs[r].ins = "failed" =>
          /\ \A i \in 1..Len(bcasts) : bcasts[i].req # r
          /\ \A c \in Clients : \A i \in 1..Len(inbox[c]) : inbox[c][i].req # r
          /\ reqs[r].pc \in {"done", "aborted"} =>
                reqs[r].pc = "done" /\ reqs[r].status = 500 /\ reqs[r].respId = 0

\* a failed insert answered while an open socket was registered, and a PULSE
\* message of another request delivered
C1_Witness ==
  \E r \in Reqs, c \in Clients :
    /\ reqs[r].ins = "failed" /\ reqs[r].pc = "done"
    /\ c \in Range(clients) /\ readyState[c] = OPEN
    /\ Len(Pulses(c)) > 0

\* C2: per-subscriber failure isolation. After a broadcast in which the send
\* to one socket threw, that socket is out of the active set and every other
\* socket that was registered and open has the message of that event.
C2_FailureIsolation ==
  \A i \in 1..Len(bcasts) :
    bcasts[i].threw =>
      /\ bcasts[i].thrower \notin Range(clients)
      /\ \A c \in bcasts[i].open \ {bcasts[i].thrower} :
            Len(PulsesOf(c, bcasts[i].id)) >= 1

\* C3: a delivery failure never reaches the ingestion caller. Every request
\* whose insert succeeded and whose handler has ended was answered 201 with
\* the assigned id.
C3_DeliveryFailureContained ==
  \A r \in Reqs :
    (reqs[r].ins = "ok" /\ reqs[r].pc \in {"done", "aborted"}) =>
      (reqs[r].pc = "done" /\ reqs[r].status = 201 /\ reqs[r].respId = reqs[r].id)

\* C4: exactly one PULSE per successful append for every socket registered and
\* open when the append completed, and PULSE messages in the order the appends
\* completed.
C4_ExactlyOnceInOrder ==
  /\ \A i \in 1..Len(bcasts) : \A c \in bcasts[i].open :
        Len(PulsesOf(c, bcasts[i].id)) = 1
  /\ \A c \in Clients : \A i, j \in 1..Len(Pulses(c)) :
        i < j => BcastIndex(Pulses(c)[i].pulse.id) < BcastIndex(Pulses(c)[j].pulse.id)

RECURSIVE SumCounts(_)
SumCounts(B) == IF B = <<>> THEN 0 ELSE Head(B).count + SumCounts(Tail(B))

InBucket(r, b) ==
  b.bucket_ms <= r.server_time /\ r.server_time < b.bucket_ms + BUCKET_WIDTH

OkReqs == {r \in Reqs : reqs[r].ins = "ok"}

\* C5: retention invariant. At every instant the store holds no row whose
\* server_time is older than now - 5 days - one purge interval.
C5_RetentionInvariant ==
  \A row \in store : row.server_time >= now - HORIZON_MS - PURGE_EVERY

\* C6: ids. The ids the store assigned strictly increase in insertion order
\* (so they are distinct and never reused, also after a purge); every
\* successful request holds its own id and its row is in the store unless a
\* purge with a later cutoff ran; the store holds no other new row.
C6_IdsDistinctIncreasing ==
  /\ \A i, j \in 1..Len(issued) : i < j => issued[i] < issued[j]
  /\ \A a, b \in store : a.id = b.id => a = b
  /\ \A r, q \in OkReqs : r # q => reqs[r].id # reqs[q].id
  /\ \A r \in OkReqs :
        /\ reqs[r].id \in Range(issued)
        /\ \/ \E row \in store : row.id = reqs[r].id /\ row.server_time = reqs[r].st
           \/ reqs[r].st < maxCutoff
  /\ \A row \in store : row \in OldRows \/ \E r \in OkReqs : reqs[r].id = row.id

\* two successful inserts, the later one after a purge that deleted rows
C6_Witness ==
  /\ Cardinality(OkReqs) = 2
  /\ lastPurge.changes > 0
  /\ \E r \in OkReqs : reqs[r].id > SetMax(Ids(lastPurge.before))

\* C7: the last purge, with cutoff t, deleted exactly the rows with
\* server_time < t and kept every other row as it was; the kept rows are still
\* in the store; a second purge with the same t deletes nothing.
C7_PurgeExact ==
  /\ lastPurge.after = {row \in lastPurge.before : row.server_time >= lastPurge.cutoff}
  /\ lastPurge.changes =
       Cardinality({row \in lastPurge.before : row.server_time < lastPurge.cutoff})
  /\ lastPurge.after \subseteq store
  /\ (store \cap lastPurge.before) \subseteq lastPurge.after
  /\ \A row \in store : row.server_time >= maxCutoff
  /\ PurgeBefore(lastPurge.after, lastPurge.cutoff) = lastPurge.after
  /\ Cardinality(lastPurge.after \ PurgeBefore(lastPurge.after, lastPurge.cutoff)) = 0

\* a purge that deleted some rows and kept others, one of them at the cutoff
C7_Witness ==
  /\ lastPurge.changes > 0
  /\ \E row \in lastPurge.after : row.server_time = lastPurge.cutoff
  /\ \E row \in lastPurge.after : row.server_time > lastPurge.cutoff

\* C8: the bucket query is exhaustive and non-overlapping. Of the table the
\* SELECT ran against, every row with server_time >= since lies in exactly one
\* returned bucket, each bucket counts exactly the rows >= since inside its
\* interval (so no row < since is counted), and the counts add up to the
\* number of rows query_since(since) returns.
C8_BucketsExhaustive ==
  (lastRead.kind = "buckets" /\ lastRead.status = 200) =>
    LET B == lastRead.buckets
        S == lastRead.snap
        since == lastRead.since
    IN  /\ \A row \in S : row.server_time >= since =>
              Cardinality({i \in 1..Len(B) : InBucket(row, B[i])}) = 1
        /\ \A i \in 1..Len(B) :
              B[i].count = Cardinality({row \in S : row.server_time >= since
                                                     /\ InBucket(row, B[i])})
        /\ SumCounts(B) = Len(QuerySince(S, since))
        /\ SumCounts(B) = Cardinality({row \in S : row.server_time >= since})

\* a bucket response over a table holding a row older than since, a row at
\* since and a later row
C8_Witness ==
  /\ lastRead.kind = "buckets" /\ lastRead.status = 200
  /\ \E a, b, c \in lastRead.snap :
        /\ a.server_time < lastRead.since
        /\ b.server_time = lastRead.since
        /\ c.server_time > lastRead.since

\* C9: bucket alignment truncates. Every returned bucket starts at a multiple
\* of the width, has count >= 1 and bucket_start <= first_pulse_ms <=
\* last_pulse_ms < bucket_start + width; every counted row lies in the bucket
\* starting at floor(server_time / width) * width; 599999 and 600000 belong to
\* buckets 0 and 600000; buckets ascend strictly; no row gives no bucket.
C9_BucketAlignment ==
  (lastRead.kind = "buckets" /\ lastRead.status = 200) =>
    LET B == lastRead.buckets
        S == {row \in lastRead.snap : row.server_time >= lastRead.since}
    IN  /\ \A i \in 1..Len(B) :
              /\ B[i].bucket_ms % BUCKET_WIDTH = 0
              /\ B[i].count >= 1
              /\ B[i].bucket_ms <= B[i].first_pulse_ms
              /\ B[i].first_pulse_ms <= B[i].last_pulse_ms
              /\ B[i].last_pulse_ms < B[i].bucket_ms + BUCKET_WIDTH
              /\ \E row \in S : row.server_time = B[i].first_pulse_ms
              /\ \E row \in S : row.server_time = B[i].last_pulse_ms
        /\ \A row \in S : \E i \in 1..Len(B) :
              /\ B[i].bucket_ms = row.server_time - (row.server_time % BUCKET_WIDTH)
              /\ B[i].first_pulse_ms <= row.server_time
              /\ row.server_time <= B[i].last_pulse_ms
        /\ \A a, b \in S :
              (a.server_time = 599999 /\ b.server_time = 600000) =>
                 /\ \E i \in 1..Len(B) : B[i].bucket_ms = 0 /\ B[i].last_pulse_ms = 599999
                 /\ \E i \in 1..Len(B) : B[i].bucket_ms = 600000 /\ B[i].first_pulse_ms = 600000
        /\ \A i, j \in 1..Len(B) : i < j => B[i].bucket_ms < B[j].bucket_ms
        /\ S = {} => B = <<>>

\* a bucket response over rows at 599999 and 600000
C9_Witness ==
  /\ lastRead.kind = "buckets" /\ lastRead.status = 200
  /\ Len(lastRead.buckets) = 2
  /\ \E a, b \in lastRead.snap : a.server_time = 599999 /\ b.server_time = 600000

\* C10: the HISTORY bootstrap. Every HISTORY message holds exactly the rows,
\* of the table its SELECT ran against, with server_time >= connect time - 10
\* minutes, each once, ascending by server_time.
C10_HistoryLastTenMinutes ==
  \A c \in Clients : \A i \in 1..Len(inbox[c]) :
    inbox[c][i].type = "HISTORY" =>
      LET m == inbox[c][i] IN
        /\ Range(m.pulses) = {row \in m.snap : row.server_time >= m.at - 600000}
        /\ Len(m.pulses) = Cardinality(Range(m.pulses))
        /\ \A j, k \in 1..Len(m.pulses) :
              j < k => m.pulses[j].server_time <= m.pulses[k].server_time

\* a socket connected with rows at now - 5 min and now - 15 min in the table
\* was sent a HISTORY holding the now - 5 min row alone
C10_Witness ==
  \E c \in Clients : \E i \in 1..Len(inbox[c]) :
    LET m == inbox[c][i] IN
      /\ m.type = "HISTORY"
      /\ \E a, b \in m.snap :
            /\ a.server_time = m.at - 900000
            /\ b.server_time = m.at - 300000
            /\ m.pulses = <<b>>

\* C11: HISTORY comes first. Every socket is sent at most one HISTORY message,
\* and whatever it has been sent starts with its HISTORY message: no PULSE
\* message precedes it.
C11_HistoryFirst ==
  \A c \in Clients :
    /\ Len(SelectSeq(inbox[c], LAMBDA m : m.type = "HISTORY")) <= 1
    /\ inbox[c] # <<>> => inbox[c][1].type = "HISTORY"

\* C16: the record of a PULSE message is the persisted record. Its id,
\* device_id, pulse_number, uptime_ms and server_time equal those of the row the
\* table holds under that id, and every HISTORY message that lists the id
\* carries the same server_time.
C16_PulseIsStoredRecord ==
  \A c \in Clients : \A i \in 1..Len(inbox[c]) :
    inbox[c][i].type = "PULSE" =>
      /\ \A row \in store : row.id = inbox[c][i].pulse.id => row = inbox[c][i].pulse
      /\ \A d \in Clients : \A j \in 1..Len(inbox[d]) :
            inbox[d][j].type = "HISTORY" =>
              \A k \in 1..Len(inbox[d][j].pulses) :
                inbox[d][j].pulses[k].id = inbox[c][i].pulse.id =>
                  inbox[d][j].pulses[k].server_time = inbox[c][i].pulse.server_time

\* C17: a closed socket is silent and stays out. From the moment a socket's
\* readyState has left OPEN no step sends it a message (neither a PULSE nor
\* the HISTORY of a query started before the close), its readyState never
\* returns to OPEN, and once it is out of clients it is never put back.
C17_ClosedIsSilent ==
  [][\A c \in Clients :
       readyState[c] \in {2, 3} =>
         /\ inbox'[c] = inbox[c]
         /\ readyState'[c] \in {2, 3}
         /\ c \notin Range(clients) => c \notin Range(clients')]_vars

\* a socket that closed while its history query was outstanding: the callback
\* has run and sent nothing, and a broadcast has passed it by
C17_Witness ==
  \E c \in Clients :
    /\ variant = "async"
    /\ readyState[c] = 3 /\ inbox[c] = <<>>
    /\ \A op \in dbOps : ~(op.kind = "history" /\ op.who = c)
    /\ \E d \in Clients : d # c /\ Len(Pulses(d)) > 0

\* C18: the active set is consistent. clients holds exactly the sockets that
\* connected and whose close handler has not run, each once; no socket is sent
\* the message of one record twice, and a broadcast that ran to its end sent
\* the message to every member that was open, whatever connects and closes
\* came between.
C18_SubscriberSet ==
  /\ Range(clients) = {c \in Clients : readyState[c] \in {OPEN, 2}}
  /\ \A i, j \in 1..Len(clients) : clients[i] = clients[j] => i = j
  /\ \A c \in Clients : \A id \in Range(issued) : Len(PulsesOf(c, id)) <= 1
  /\ \A i \in 1..Len(bcasts) :
        ~bcasts[i].threw =>
          \A c \in bcasts[i].open : Len(PulsesOf(c, bcasts[i].id)) = 1

\* a socket that got the first record and whose close was handled before the
\* second was broadcast to the socket that stayed
C18_Witness ==
  \E c, d \in Clients :
    /\ readyState[c] = 3 /\ Len(Pulses(c)) = 1
    /\ d \in Range(clients) /\ readyState[d] = OPEN /\ Len(Pulses(d)) = 2

\* C19: response and store agree. No request is left without a response, a
\* request gets the failure response only when its insert stored nothing, and
\* the success response only when it stored its row.
C19_ResponseMatchesStore ==
  \A r \in Reqs :
    /\ reqs[r].pc # "aborted"
    /\ reqs[r].pc = "done" =>
          /\ reqs[r].status \in {201, 500}
          /\ reqs[r].status = 500 => reqs[r].ins = "failed"
          /\ reqs[r].status = 201 => reqs[r].ins = "ok" /\ reqs[r].respId = reqs[r].id

\* the body with no key at all
EmptyBody == [device_id |-> "undefined", pulse_number |-> "undefined", uptime_ms |-> "undefined"]

\* the row request r stored, as the table would hold it
RowOf(r, dev, pn, up) == Rec(reqs[r].id, dev, pn, up, reqs[r].st)

\* C12: ingestion without the optional fields succeeds. A request whose body
\* has neither device_id nor pulse_number nor uptime_ms, answered while the
\* storage worked, stored exactly one row with device_id "ESP32-001",
\* pulse_number null and uptime_ms null (held by the table until a purge passes
\* it), and its response is the success response with the id of that row.
C12_AbsentFieldsDefaulted ==
  \A r \in Reqs :
    reqs[r].pc = "done" /\ reqs[r].body = EmptyBody /\ ~reqs[r].sfail =>
      /\ reqs[r].ins = "ok"
      /\ reqs[r].status = 201 /\ reqs[r].respId = reqs[r].id
      /\ Cardinality({i \in 1..Len(issued) : issued[i] = reqs[r].id}) = 1
      /\ \A row \in store :
            row.id = reqs[r].id => row = RowOf(r, "ESP32-001", "null", "null")
      /\ (\E row \in store : row.id = reqs[r].id) \/ reqs[r].st < maxCutoff

\* an empty body answered 201 with its row in the table
C12_Witness ==
  \E r \in Reqs :
    /\ reqs[r].pc = "done" /\ reqs[r].body = EmptyBody /\ reqs[r].status = 201
    /\ RowOf(r, "ESP32-001", "null", "null") \in store

\* C13: payload defects never cause rejection. Every request answered while
\* the storage worked, whatever its body (a null device_id, pulse_number or
\* uptime_ms included), stored a row and got the success response.
C13_DefectsNeverRejected ==
  \A r \in Reqs :
    reqs[r].pc = "done" /\ ~reqs[r].sfail =>
      reqs[r].ins = "ok" /\ reqs[r].status = 201

\* the rows of a read's table snapshot at or after t
SnapSince(t) == {row \in lastRead.snap : row.server_time >= t}

\* C14: statistics. A stats response covers the rows of the table whose
\* server_time lies in the retention window (the last 5 days, taken to the
\* second in the sync build): total_pulses is their number; with none of them
\* total_pulses is 0 and first_ms and last_ms are null; otherwise first_ms <=
\* last_ms are the smallest and the largest server_time among them, and with
\* exactly one both are that row's stored server_time.
C14_StatsOverWindow ==
  (lastRead.kind = "stats" /\ lastRead.status = 200) =>
    LET w  == SnapSince(lastRead.since)
        st == lastRead.stats
    IN  /\ lastRead.since <= lastRead.at - HORIZON_MS
        /\ lastRead.since > lastRead.at - HORIZON_MS - 1000
        /\ st.total_pulses = Cardinality(w)
        /\ w = {} => st.total_pulses = 0 /\ st.first_ms = <<>> /\ st.last_ms = <<>>
        /\ w # {} =>
              /\ Len(st.first_ms) = 1 /\ Len(st.last_ms) = 1
              /\ st.first_ms[1] <= st.last_ms[1]
              /\ \E row \in w : row.server_time = st.first_ms[1]
              /\ \E row \in w : row.server_time = st.last_ms[1]
              /\ \A row \in w : st.first_ms[1] <= row.server_time
                                 /\ row.server_time <= st.last_ms[1]
        /\ \A row \in w :
              w = {row} => st.total_pulses = 1 /\ st.first_ms = <<row.server_time>>
                                               /\ st.last_ms = <<row.server_time>>

\* a stats response counting the one row inside the window of a table that
\* also holds a row older than the window
C14_Witness ==
  /\ lastRead.kind = "stats" /\ lastRead.status = 200
  /\ lastRead.stats.total_pulses = 1
  /\ lastRead.stats.first_ms = lastRead.stats.last_ms
  /\ \E row \in lastRead.snap : row.server_time < lastRead.since

\* C15: lookback caps. Whatever ?minutes= was asked, a recent response holds
\* no row older than 60 minutes before the request; whatever ?days= was asked,
\* a bucket response counts no row older than 5 days before the request.
C15_LookbackCaps ==
  /\ (lastRead.kind = "recent" /\ lastRead.status = 200) =>
        /\ \A i \in 1..Len(lastRead.rows) :
              /\ lastRead.rows[i] \in lastRead.snap
              /\ lastRead.rows[i].server_time >= lastRead.at - MAX_MINUTES * MINUTE_MS
        /\ lastRead.since >= lastRead.at - MAX_MINUTES * MINUTE_MS
  /\ (lastRead.kind = "buckets" /\ lastRead.status = 200) =>
        /\ \A i \in 1..Len(lastRead.buckets) :
              lastRead.buckets[i].first_pulse_ms >= lastRead.at - MAX_DAYS * DAY_MS
        /\ SumCounts(lastRead.buckets)
              <= Cardinality(SnapSince(lastRead.at - MAX_DAYS * DAY_MS))
        /\ lastRead.since >= lastRead.at - MAX_DAYS * DAY_MS

\* a recent response cut at 60 minutes: the table holds an older row that is
\* left out and a row inside the hour that is returned
C15_Witness ==
  /\ lastRead.kind = "recent" /\ lastRead.status = 200
  /\ lastRead.since = lastRead.at - MAX_MINUTES * MINUTE_MS
  /\ Len(lastRead.rows) >= 1
  /\ \E row \in lastRead.snap : row.server_time < lastRead.since

\* ======================================================================
\* Specifications
\* ======================================================================
\* every handler of both builds under every input
Next ==
  \/ Tick(StoreClock)
  \/ \E r \in Reqs, body \in Bodies, sf \in BOOLEAN, failing \in SUBSET Clients :
        PostPulseSync(r, body, sf, failing)
  \/ \E c \in Clients, sf \in BOOLEAN : ConnectSync(c, sf)
  \/ \E q \in DayQueries, sf \in BOOLEAN : GetBucketsSync(q, sf)
  \/ \E c \in Clients : SocketClosing(c)
  \/ \E c \in Clients : OnClose(c)
  \/ \E r \in Reqs, body \in Bodies : PostPulseAsync(r, body)
  \/ \E op \in dbOps, sf \in BOOLEAN : ExecInsert(op, sf)
  \/ \E op \in dbOps, failing \in SUBSET Clients : InsertCallback(op, failing)
  \/ \E c \in Clients : ConnectAsync(c)
  \/ \E op \in dbOps, sf \in BOOLEAN : ExecHistory(op, sf)
  \/ \E op \in dbOps : HistoryCallback(op)
  \/ PurgeTimer
  \/ \E op \in dbOps, sf \in BOOLEAN : ExecPurge(op, sf)
  \/ \E q \in DayQueries : GetBucketsAsync(q)
  \/ \E op \in dbOps, sf \in BOOLEAN : ExecBuckets(op, sf)
  \/ \E op \in dbOps : BucketsCallback(op)
  \/ \E q \in MinuteQueries, sf \in BOOLEAN : GetRecentSync(q, sf)
  \/ \E sf \in BOOLEAN : GetStatsSync(sf)
  \/ \E q \in MinuteQueries : GetRecentAsync(q)
  \/ \E op \in dbOps, sf \in BOOLEAN : ExecRecent(op, sf)
  \/ \E op \in dbOps : RecentCallback(op)
  \/ GetStatsAsync
  \/ \E op \in dbOps, sf \in BOOLEAN : ExecStats(op, sf)
  \/ \E op \in dbOps : StatsCallback(op)

Spec == Init /\ [][Next]_vars

\* The three specifications below are Spec with the environment narrowed.
\* ---- the fan-out hub: requests and sockets, the clock standing still
InitHub == Fresh /\ Boot

NextHub ==
  \/ \E r \in Reqs, body \in Bodies, sf \in BOOLEAN, failing \in SUBSET Clients :
        PostPulseSync(r, body, sf, failing)
  \/ \E c \in Clients : ConnectSync(c, FALSE)
  \/ \E c \in Clients : SocketClosing(c)
  \/ \E c \in Clients : OnClose(c)
  \/ \E r \in Reqs, body \in Bodies : PostPulseAsync(r, body)
  \/ \E op \in dbOps, sf \in BOOLEAN : ExecInsert(op, sf)
  \/ \E op \in dbOps, failing \in SUBSET Clients : InsertCallback(op, failing)
  \/ \E c \in Clients : ConnectAsync(c)
  \/ \E op \in dbOps : ExecHistory(op, FALSE)
  \/ \E op \in dbOps : HistoryCallback(op)

SpecHub == InitHub /\ [][NextHub]_vars

\* ---- the store: requests, purges and read queries over a moving clock,
\* no socket connected
InitStore == (Fresh \/ Restarted) /\ Boot

NextStore ==
  \/ Tick(StoreClock)
  \/ \E r \in Reqs, body \in Bodies, sf \in BOOLEAN : PostPulseSync(r, body, sf, {})
  \/ \E q \in DayQueries, sf \in BOOLEAN : GetBucketsSync(q, sf)
  \/ \E r \in Reqs, body \in Bodies : PostPulseAsync(r, body)
  \/ \E op \in dbOps, sf \in BOOLEAN : ExecInsert(op, sf)
  \/ \E op \in dbOps : InsertCallback(op, {})
  \/ PurgeTimer
  \/ \E op \in dbOps, sf \in BOOLEAN : ExecPurge(op, sf)
  \/ \E q \in DayQueries : GetBucketsAsync(q)
  \/ \E op \in dbOps, sf \in BOOLEAN : ExecBuckets(op, sf)
  \/ \E op \in dbOps : BucketsCallback(op)
  \/ \E q \in MinuteQueries, sf \in BOOLEAN : GetRecentSync(q, sf)
  \/ \E sf \in BOOLEAN : GetStatsSync(sf)
  \/ \E q \in MinuteQueries : GetRecentAsync(q)
  \/ \E op \in dbOps, sf \in BOOLEAN : ExecRecent(op, sf)
  \/ \E op \in dbOps : RecentCallback(op)
  \/ GetStatsAsync
  \/ \E op \in dbOps, sf \in BOOLEAN : ExecStats(op, sf)
  \/ \E op \in dbOps : StatsCallback(op)

SpecStore == InitStore /\ [][NextStore]_vars

\* ---- the HISTORY bootstrap: requests and connects over a moving clock,
\* the storage never failing and no socket closing
InitHistory == Fresh /\ Boot

NextHistory ==
  \/ Tick(HistoryClock)
  \/ \E r \in Reqs, body \in GoodBodies : PostPulseSync(r, body, FALSE, {})
  \/ \E c \in Clients : ConnectSync(c, FALSE)
  \/ \E r \in Reqs, body \in GoodBodies : PostPulseAsync(r, body)
  \/ \E op \in dbOps : ExecInsert(op, FALSE)
  \/ \E op \in dbOps : InsertCallback(op, {})
  \/ \E c \in Clients : ConnectAsync(c)
  \/ \E op \in dbOps : ExecHistory(op, FALSE)
  \/ \E op \in dbOps : HistoryCallback(op)

SpecHistory == InitHistory /\ [][NextHistory]_vars
====
